---- MODULE Spec2Model ----
(***************************************************************************)
(* Document acquisition pipeline of UWSS: the cursor-paginated discovery   *)
(* crawler (uwss/core/discovery.py), the location registry and its source  *)
(* mappers (uwss/registry.py, uwss/plugins, uwss/schemas/location.py), the *)
(* fetch executor (uwss/core/fetching.py), the item store                  *)
(* (uwss/core/storage.py) and the two commands that drive them             *)
(* (cmd_discover and cmd_fetch of uwss/cli.py).                            *)
(*                                                                         *)
(* Commands run one at a time, as the command line runs them.  A step is   *)
(* one page request of the crawler or one candidate attempt of the fetch   *)
(* executor; the responses of the network are chosen by the environment.   *)
(***************************************************************************)
EXTENDS Integers, Sequences, FiniteSets, TLC

(***************************************************************************)
(* Bounds of the model.                                                    *)
(***************************************************************************)
MaxCap == 2          \* max_results ranges over -1 .. MaxCap
MaxPageLen == 2      \* an upstream page carries 0 .. MaxPageLen records
MaxLimit == 2        \* the limit of a fetch run ranges over 0 .. MaxLimit
MaxLocs == 3         \* a list handed to normalize_locations has 0 .. MaxLocs entries
MaxListed == 2       \* a metadata blob lists 0 .. MaxListed further copies
MaxKeywords == 3     \* a keyword list has 0 .. MaxKeywords entries

(***************************************************************************)
(* Python values.  None and the empty string are the two falsy strings the *)
(* code meets; `a or b` is Or(a, b).                                       *)
(***************************************************************************)
None == "<None>"

Truthy(s) == s \notin {None, ""}

Or(a, b) == IF Truthy(a) THEN a ELSE b

\* str.strip() on the path values a stored record can carry.
Strip(s) == IF s \in {" ", None} THEN "" ELSE s

Max2(a, b) == IF a >= b THEN a ELSE b

Min2(a, b) == IF a <= b THEN a ELSE b

Reverse(s) == [i \in 1..Len(s) |-> s[Len(s) + 1 - i]]

(***************************************************************************)
(* Upstream catalogue: the raw OpenAlex work records the bibliographic API *)
(* can return.  A location dict carries the four keys the mapper reads.    *)
(*   M1  best and primary copy with a direct PDF url, one listed landing   *)
(*       page                                                              *)
(*   M2  the same work id later re-served with a best copy that has only a *)
(*       landing page and a primary copy that has only a PDF url           *)
(*   M3  no id; recognised by shape; landing pages only, one empty entry   *)
(*   M4  no id, no authorships: matches no mapper; carries a DOI           *)
(***************************************************************************)
LocDict(pdfA, pdfB, url, landing) ==
    [url_for_pdf |-> pdfA, pdf_url |-> pdfB, url |-> url, landing_page_url |-> landing]

Works == {"M1", "M2", "M3", "M4"}

Meta(k) ==
    CASE k = "M1" ->
           [id |-> "https://openalex.org/W1", doi |-> "https://doi.org/10.1/A",
            title |-> "A", year |-> 2020, authorships |-> TRUE, primary_key |-> TRUE,
            best_oa_location |-> <<LocDict("p0", None, None, None)>>,
            primary_location |-> <<LocDict(None, "p5", "h5", None)>>,
            locations |-> <<LocDict(None, None, None, "h10")>>]
      [] k = "M2" ->
           [id |-> "https://openalex.org/W1", doi |-> None,
            title |-> "A", year |-> 2020, authorships |-> TRUE, primary_key |-> TRUE,
            best_oa_location |-> <<LocDict(None, None, "h0", None)>>,
            primary_location |-> <<LocDict("p5", None, "", None)>>,
            locations |-> <<>>]
      [] k = "M3" ->
           [id |-> None, doi |-> "",
            title |-> " T ", year |-> 2021, authorships |-> TRUE, primary_key |-> TRUE,
            best_oa_location |-> <<LocDict(None, None, "h0", None)>>,
            primary_location |-> <<LocDict(None, None, None, "h5")>>,
            locations |-> <<LocDict(None, "", None, None)>>]
      [] k = "M4" ->
           [id |-> None, doi |-> "10.1/b",
            title |-> "T", year |-> 2021, authorships |-> FALSE, primary_key |-> TRUE,
            best_oa_location |-> <<LocDict("x0", None, None, None)>>,
            primary_location |-> <<>>,
            locations |-> <<>>]
      [] OTHER ->
           [id |-> None, doi |-> None,
            title |-> "", year |-> 0, authorships |-> FALSE, primary_key |-> FALSE,
            best_oa_location |-> <<>>, primary_location |-> <<>>, locations |-> <<>>]

\* json.loads(item.get("meta_json") or "{}"): meta_json is the dump of a
\* catalogue record, or empty.
ParseMeta(meta_json) == IF meta_json \in Works THEN Meta(meta_json) ELSE Meta("{}")

(***************************************************************************)
(* Location model and normalisation.                                       *)
(***************************************************************************)
Location(pdf, html, prio, src) ==
    [pdf_url |-> pdf, html_url |-> html, priority |-> prio, source |-> src]

\* Mutant: an insertion that puts x before the entries of its own priority.
RECURSIVE InsertBeforeEqual(_, _)
InsertBeforeEqual(x, s) ==
    IF s = <<>> THEN <<x>>
    ELSE IF Head(s).priority < x.priority
         THEN <<Head(s)>> \o InsertBeforeEqual(x, Tail(s))
         ELSE <<x>> \o s

RECURSIVE InsertByPriority(_, _)
\* x goes after every entry whose priority is not greater: the sort is stable.
InsertByPriority(x, s) ==
    IF s = <<>> THEN <<x>>
    ELSE IF Head(s).priority <= x.priority
         THEN <<Head(s)>> \o InsertByPriority(x, Tail(s))
         ELSE <<x>> \o s

\* Mutant: a sort that makes a single pass of neighbour swaps.
RECURSIVE SortOnePass(_)
SortOnePass(s) ==
    IF Len(s) < 2 THEN s
    ELSE IF s[1].priority > s[2].priority
         THEN <<s[2]>> \o SortOnePass(<<s[1]>> \o Tail(Tail(s)))
         ELSE <<s[1]>> \o SortOnePass(Tail(s))

\* list.sort(key=priority): stable.
RECURSIVE SortByPriority(_)
SortByPriority(s) ==
    IF s = <<>> THEN <<>>
    ELSE InsertByPriority(s[Len(s)], SortByPriority(SubSeq(s, 1, Len(s) - 1)))

HasUrl(loc) == Truthy(Or(loc.pdf_url, loc.html_url))

normalize_locations(locs) == SortByPriority(SelectSeq(locs, HasUrl))

(***************************************************************************)
(* OpenAlex mapper.                                                        *)
(***************************************************************************)
OA == "openalex"

OaPick(d) == [pdf |-> Or(d.url_for_pdf, d.pdf_url), html |-> Or(d.url, d.landing_page_url)]

OaLoc(d, prio) == Location(OaPick(d).pdf, OaPick(d).html, prio, OA)

\* Mutant: a mapper that gives every listed copy priority 10.
map_openalex_one_band(meta) ==
    normalize_locations(
        [i \in 1..Len(meta.best_oa_location) |-> OaLoc(meta.best_oa_location[i], 0)]
        \o [i \in 1..Len(meta.primary_location) |-> OaLoc(meta.primary_location[i], 5)]
        \o [i \in 1..Len(meta.locations) |-> OaLoc(meta.locations[i], 10)])

map_openalex_locations(meta) ==
    normalize_locations(
        [i \in 1..Len(meta.best_oa_location) |-> OaLoc(meta.best_oa_location[i], 0)]
        \o [i \in 1..Len(meta.primary_location) |-> OaLoc(meta.primary_location[i], 5)]
        \o [i \in 1..Len(meta.locations) |-> OaLoc(meta.locations[i], 10 + (i - 1))])

(***************************************************************************)
(* Unpaywall mapper.  The enrichment API answers a lookup with a failure   *)
(* or with one of two bodies.                                              *)
(***************************************************************************)
UPW == "unpaywall"

UpwDict(pdf, url) == [url_for_pdf |-> pdf, url |-> url]

UpwResponses == {"fail", "U1", "U2"}

UpwData(r) ==
    CASE r = "U1" -> [best_oa_location |-> <<UpwDict("q0", "g0")>>,
                      oa_locations |-> <<UpwDict("q0", "g0")>>]
      [] r = "U2" -> [best_oa_location |-> <<UpwDict(None, "g0")>>,
                      oa_locations |-> <<UpwDict(None, None)>>]
      [] OTHER -> [best_oa_location |-> <<>>, oa_locations |-> <<>>]

\* doi.strip().lower() without the https://doi.org/ prefix.
NormDoi(doi) ==
    CASE doi = "https://doi.org/10.1/A" -> "10.1/a"
      [] OTHER -> doi

UpwLoc(d, prio) == Location(d.url_for_pdf, d.url, prio, UPW)

\* The lookup map_unpaywall_by_doi issues: none without a DOI or an email.
UpwLookup(doi, email) == IF Truthy(doi) /\ Truthy(email) THEN <<NormDoi(doi)>> ELSE <<>>

\* Mutant: a mapper that gives its best entry priority 0 whatever
\* prefer_best says.
map_unpaywall_always_best(doi, email, prefer_best, resp) ==
    IF ~Truthy(doi) \/ ~Truthy(email) \/ resp = "fail" THEN <<>>
    ELSE LET data == UpwData(resp)
         IN normalize_locations(
                [i \in 1..Len(data.best_oa_location) |->
                    UpwLoc(data.best_oa_location[i], 0)]
                \o [i \in 1..Len(data.oa_locations) |->
                    UpwLoc(data.oa_locations[i], 10 + (i - 1))])

map_unpaywall_by_doi(doi, email, prefer_best, resp) ==
    IF ~Truthy(doi) \/ ~Truthy(email) \/ resp = "fail" THEN <<>>
    ELSE LET data == UpwData(resp)
             pr_best == IF prefer_best THEN 0 ELSE 5
         IN normalize_locations(
                [i \in 1..Len(data.best_oa_location) |->
                    UpwLoc(data.best_oa_location[i], pr_best)]
                \o [i \in 1..Len(data.oa_locations) |->
                    UpwLoc(data.oa_locations[i], 10 + (i - 1))])

(***************************************************************************)
(* Location registry.                                                      *)
(***************************************************************************)
\* "openalex.org/" in str(meta.get("id", "")).lower()
HasOpenAlexId(id) == id \in {"https://openalex.org/W1"}

\* Mutant: detection that takes the primary_location key alone for the shape
\* of an OpenAlex record.
detect_source_by_primary_key(meta) ==
    IF HasOpenAlexId(meta.id) \/ meta.primary_key THEN OA ELSE ""

detect_source_from_meta(meta) ==
    IF HasOpenAlexId(meta.id) \/ (meta.authorships /\ meta.primary_key) THEN OA ELSE ""

locations_from_meta(meta) ==
    IF detect_source_from_meta(meta) = OA
    THEN map_openalex_locations(meta)
    ELSE normalize_locations(<<>>)

\* Mutant: a lookup sent whether or not the metadata carries a DOI.
EnrichLookupWithoutDoiCheck(meta, email) ==
    IF ~Truthy(email) THEN <<>> ELSE <<NormDoi(Or(meta.doi, ""))>>

\* The lookup enrich_locations_with_unpaywall causes.
EnrichLookup(meta, email) ==
    IF ~Truthy(Or(meta.doi, "")) \/ ~Truthy(email) THEN <<>>
    ELSE UpwLookup(Or(meta.doi, ""), email)

\* Mutant: enrichment that puts the looked-up candidates in front of the
\* mapper's before it sorts.
enrich_enricher_first(locs, meta, email, prefer_best, resp) ==
    IF ~Truthy(Or(meta.doi, "")) \/ ~Truthy(email) THEN locs
    ELSE normalize_locations(
             map_unpaywall_by_doi(Or(meta.doi, ""), email, prefer_best, resp) \o locs)

\* Mutant: enrichment that appends the looked-up candidates and returns the
\* list as it is.
enrich_without_renormalize(locs, meta, email, prefer_best, resp) ==
    IF ~Truthy(Or(meta.doi, "")) \/ ~Truthy(email) THEN locs
    ELSE locs \o map_unpaywall_by_doi(Or(meta.doi, ""), email, prefer_best, resp)

enrich_locations_with_unpaywall(locs, meta, email, prefer_best, resp) ==
    IF ~Truthy(Or(meta.doi, "")) \/ ~Truthy(email) THEN locs
    ELSE normalize_locations(
             locs \o map_unpaywall_by_doi(Or(meta.doi, ""), email, prefer_best, resp))

\* Lines 146-160 of fetch_one: the candidate list it will walk.
ResolveLocations(meta, email, prefer_best, resp) ==
    IF Truthy(email)
    THEN enrich_locations_with_unpaywall(
             locations_from_meta(meta), meta, email, prefer_best, resp)
    ELSE locations_from_meta(meta)

(***************************************************************************)
(* Item store: the rows of table items in rowid order.                     *)
(***************************************************************************)
\* INSERT OR REPLACE: the row of the same id goes, the new row gets the
\* highest rowid.
\* Mutant: a plain INSERT into a table without the primary key.
upsert_item_append(rows, row) == rows \o <<row>>

upsert_item(rows, row) == SelectSeq(rows, LAMBDA r: r.id # row.id) \o <<row>>

\* SELECT * FROM items ORDER BY rowid DESC, fetched as a whole.
iter_items(rows) == Reverse(rows)

StoredRow(rows, id) ==
    IF \E i \in 1..Len(rows) : rows[i].id = id
    THEN rows[CHOOSE i \in 1..Len(rows) : rows[i].id = id]
    ELSE [id |-> None, pdf_path |-> "", html_path |-> "", meta_json |-> ""]

StoredIds(rows) == {rows[i].id : i \in 1..Len(rows)}

(***************************************************************************)
(* Files under raw_dir.  A file is known by how its bytes got there:       *)
(*   "pdf"    a complete body that starts with %PDF                        *)
(*   "other"  a complete non-empty body that does not                      *)
(*   "empty"  created, nothing written                                     *)
(*   "cut"    the stream broke while the body was being written            *)
(***************************************************************************)
Absent == "absent"

\* _safe_name on the ids of the catalogue.
safe_name(id) ==
    CASE id = "https://openalex.org/W1" -> "W1"
      [] id = "5f2c9e" -> "5f2c9e"
      [] OTHER -> "item_0"

\* f"{os.path.join(raw_dir, safe_id)}.{ext}"
ArtifactPath(safe, ext) ==
    CASE safe = "W1" /\ ext = "pdf" -> "raw/W1.pdf"
      [] safe = "W1" /\ ext = "html" -> "raw/W1.html"
      [] safe = "5f2c9e" /\ ext = "pdf" -> "raw/5f2c9e.pdf"
      [] safe = "5f2c9e" /\ ext = "html" -> "raw/5f2c9e.html"
      [] ext = "pdf" -> "raw/item_0.pdf"
      [] OTHER -> "raw/item_0.html"

Paths == {ArtifactPath(s, e) : s \in {"W1", "5f2c9e", "item_0"}, e \in {"pdf", "html"}}

(***************************************************************************)
(* Discovery crawler and cmd_discover.                                     *)
(***************************************************************************)
\* hashlib.sha1(f"{title.strip()}_{year}") on the titles of the catalogue.
mk_id(title, year) ==
    CASE title \in {"T", " T "} /\ year = 2021 -> "5f2c9e"
      [] OTHER -> "da39a3"

\* The row cmd_discover builds from a yielded record.
DiscoverRow(k) ==
    [id |-> Or(Meta(k).id, mk_id(Or(Meta(k).title, ""), Meta(k).year)),
     pdf_path |-> "", html_path |-> "", meta_json |-> k]

RECURSIVE UpsertAll(_, _)
UpsertAll(rows, ks) ==
    IF ks = <<>> THEN rows
    ELSE UpsertAll(upsert_item(rows, DiscoverRow(Head(ks))), Tail(ks))

(***************************************************************************)
(* Request parameters.  A string is the sequence of its pieces: a word, a  *)
(* blank, or a piece of punctuation the code writes.  An optional value is *)
(* <<>> for None and <<v>> for v.                                          *)
(***************************************************************************)
Blank == " "

Quote == "\""

\* The keywords a configuration can carry: empty, blank, one token (bare or
\* padded) and phrases (bare, padded, with a double blank).
Keywords ==
    {<<>>, <<Blank>>, <<"erosion">>, <<Blank, "erosion", Blank>>,
     <<"soil", Blank, "carbon">>, <<Blank, "soil", Blank, "carbon">>,
     <<"soil", Blank, Blank, "carbon">>}

\* str.strip()
RECURSIVE lstrip(_)
lstrip(k) == IF k # <<>> /\ Head(k) = Blank THEN lstrip(Tail(k)) ELSE k

RECURSIVE rstrip(_)
rstrip(k) ==
    IF k # <<>> /\ k[Len(k)] = Blank THEN rstrip(SubSeq(k, 1, Len(k) - 1)) ELSE k

strip(k) == rstrip(lstrip(k))

\* Mutant: every keyword is stripped and kept.
StrippedKeywordsKeepingBlank(keywords) == [n \in 1..Len(keywords) |-> strip(keywords[n])]

\* Line 16: the stripped keywords that are not blank.
RECURSIVE StrippedKeywords(_)
StrippedKeywords(keywords) ==
    IF keywords = <<>> THEN <<>>
    ELSE (IF Head(keywords) # <<>> /\ strip(Head(keywords)) # <<>>
          THEN <<strip(Head(keywords))>> ELSE <<>>)
         \o StrippedKeywords(Tail(keywords))

\* Mutant: a term that quotes a phrase and leaves a single token bare.
SearchTermBareToken(k) ==
    IF \E i \in 1..Len(k) : k[i] = Blank THEN <<Quote>> \o k \o <<Quote>> ELSE k

\* Line 19: f'("{k}")'
SearchTerm(k) == <<"(", Quote>> \o k \o <<Quote, ")">>

\* sep.join(parts)
RECURSIVE Join(_, _)
Join(parts, sep) ==
    IF parts = <<>> THEN <<>>
    ELSE IF Len(parts) = 1 THEN parts[1]
    ELSE parts[1] \o <<sep>> \o Join(Tail(parts), sep)

\* Mutant: the terms joined with AND.
build_search_query_and(keywords) ==
    LET kws == StrippedKeywords(keywords)
    IN IF kws = <<>> THEN <<>>
       ELSE <<Join([n \in 1..Len(kws) |-> SearchTerm(kws[n])], " AND ")>>

build_search_query(keywords) ==
    LET kws == StrippedKeywords(keywords)
    IN IF kws = <<>> THEN <<>>
       ELSE <<Join([n \in 1..Len(kws) |-> SearchTerm(kws[n])], " OR ")>>

MinYears == {<<>>, <<0>>, <<1999>>, <<2020>>}

\* Mutant: the date condition put before the open-access condition.
build_filter_clause_date_first(filter_oa, min_year) ==
    LET parts == (IF min_year # <<>> /\ min_year[1] # 0
                  THEN <<(<<"from_publication_date:", ToString(min_year[1]), "-01-01">>)>>
                  ELSE <<>>)
                 \o (IF filter_oa THEN <<(<<"open_access.is_oa:true">>)>> ELSE <<>>)
    IN IF parts = <<>> THEN <<>> ELSE <<Join(parts, ",")>>

\* if min_year: is false for None and for 0.
build_filter_clause(filter_oa, min_year) ==
    LET parts == (IF filter_oa THEN <<(<<"open_access.is_oa:true">>)>> ELSE <<>>)
                 \o (IF min_year # <<>> /\ min_year[1] # 0
                     THEN <<(<<"from_publication_date:", ToString(min_year[1]), "-01-01">>)>>
                     ELSE <<>>)
    IN IF parts = <<>> THEN <<>> ELSE <<Join(parts, ",")>>

\* Lines 61-68: a parameter is set only if its value is truthy.
SetIfTruthy(opt) == IF opt # <<>> /\ opt[1] # <<>> THEN opt ELSE <<>>

\* Page responses of the bibliographic API: a failure, or a page with its
\* records and the next cursor of its pagination metadata.
FailKinds == {"transport", "non200", "badjson"}

NoResp == [kind |-> "none", results |-> <<>>, next_cursor |-> None]

SeqsUpTo(S, n) == UNION {[1..m -> S] : m \in 0..n}

Responses(maxLen) ==
    {[kind |-> f, results |-> <<>>, next_cursor |-> None] : f \in FailKinds}
    \cup {[kind |-> "page", results |-> rs, next_cursor |-> c] :
             rs \in SeqsUpTo(Works, maxLen), c \in {"c1", None, ""}}

\* Mutant: the loop without its break at the cap.
YieldLoopNoBreak(results, fetched, max_results) == results

\* The for loop of lines 98-102: what one page yields.
RECURSIVE YieldLoop(_, _, _)
YieldLoop(results, fetched, max_results) ==
    IF results = <<>> THEN <<>>
    ELSE <<Head(results)>> \o
         (IF fetched + 1 >= max_results THEN <<>>
          ELSE YieldLoop(Tail(results), fetched + 1, max_results))

\* Mutant: a page size capped at 200 with no lower limit.
ClampPerPageAbove(per_page) == Min2(per_page, 200)

ClampPerPage(per_page) == Max2(1, Min2(per_page, 200))

\* Mutant: the while condition without the cap.
LoopConditionNoCap(c) == Truthy(c.cursor)

\* Mutant: the while condition without the cursor.
LoopConditionNoCursor(c) == c.fetched < c.max_results

\* Line 78: the while condition.
LoopCondition(c) == c.fetched < c.max_results /\ Truthy(c.cursor)

NoCrawl ==
    [keywords |-> <<>>, filter_oa |-> FALSE, min_year |-> <<>>,
     search |-> <<>>, filter |-> <<>>,
     max_results |-> 0, per_page_arg |-> 0, per_page |-> 0, cursor |-> None,
     fetched |-> 0, broke |-> FALSE, nreq |-> 0, yielded |-> <<>>, last |-> NoResp,
     received |-> <<>>]

(***************************************************************************)
(* Fetch executor.                                                         *)
(***************************************************************************)
NotSent == "(not sent)"

\* What the HEAD probe meets: a Content-Type that names PDF, one that names
\* another type, one that says nothing about the type, no header, an error.
HeadOutcomes ==
    {"Application/PDF", "text/html", "application/octet-stream", "noheader", "error"}

DlOutcomes == {"non200", "error", "cut", "empty", "ok_pdf", "ok_other"}

\* Local failures _download does not catch: open(out_path, "wb") raises
\* OSError, or f.write does after part of the body is on disk.
DlFaults == {"oserror_open", "oserror_write"}

\* Outcomes of the INSERT OR REPLACE of upsert_item: done, or sqlite3.Error.
StoreWrites == {"ok", "fail"}

\* _head_content_type: the lower-cased header, "" without one or on error.
head_content_type(h) ==
    CASE h = "Application/PDF" -> "application/pdf"
      [] h \in {"noheader", "error"} -> ""
      [] OTHER -> h

ContainsPdf(ctype) == ctype \in {"application/pdf"}

\* Mutant: _download that returns True without looking at the byte count.
download_any_body(d, old) ==
    CASE d = "non200" -> [ok |-> FALSE, file |-> old]
      [] d = "error" -> [ok |-> FALSE, file |-> old]
      [] d = "oserror_open" -> [ok |-> FALSE, file |-> old]
      [] d = "oserror_write" -> [ok |-> FALSE, file |-> "cut"]
      [] d = "cut" -> [ok |-> FALSE, file |-> "cut"]
      [] d = "empty" -> [ok |-> TRUE, file |-> "empty"]
      [] d = "ok_pdf" -> [ok |-> TRUE, file |-> "pdf"]
      [] OTHER -> [ok |-> TRUE, file |-> "other"]

\* _download: the result and what is at out_path afterwards.
download(d, old) ==
    CASE d = "non200" -> [ok |-> FALSE, file |-> old]
      [] d = "error" -> [ok |-> FALSE, file |-> old]
      [] d = "oserror_open" -> [ok |-> FALSE, file |-> old]
      [] d = "oserror_write" -> [ok |-> FALSE, file |-> "cut"]
      [] d = "cut" -> [ok |-> FALSE, file |-> "cut"]
      [] d = "empty" -> [ok |-> FALSE, file |-> "empty"]
      [] d = "ok_pdf" -> [ok |-> TRUE, file |-> "pdf"]
      [] OTHER -> [ok |-> TRUE, file |-> "other"]

is_real_pdf(content) == content = "pdf"

\* Mutant: a probe whose answer is not looked at.
IsPdfLikeWhatever(ctype) == TRUE

IsPdfLike(ctype) == IF ctype # "" THEN ContainsPdf(ctype) ELSE TRUE

\* Mutant: _try_pdf without the signature check.
try_pdf_unchecked(loc, h, d, old) ==
    IF ~Truthy(loc.pdf_url)
    THEN [accepted |-> FALSE, file |-> old, head |-> NotSent, get |-> NotSent]
    ELSE IF ~IsPdfLike(head_content_type(h))
    THEN [accepted |-> FALSE, file |-> old, head |-> h, get |-> NotSent]
    ELSE [accepted |-> download(d, old).ok, file |-> download(d, old).file,
          head |-> h, get |-> d]

\* Mutant: _try_pdf without the guard on a missing pdf_url.
try_pdf_unguarded(loc, h, d, old) ==
    IF ~IsPdfLike(head_content_type(h))
    THEN [accepted |-> FALSE, file |-> old, head |-> h, get |-> NotSent]
    ELSE IF download(d, old).ok
    THEN IF is_real_pdf(download(d, old).file)
         THEN [accepted |-> TRUE, file |-> download(d, old).file, head |-> h, get |-> d]
         ELSE [accepted |-> FALSE, file |-> Absent, head |-> h, get |-> d]
    ELSE [accepted |-> FALSE, file |-> download(d, old).file, head |-> h, get |-> d]

\* _try_pdf on one candidate: whether it returns the path, the file at the
\* .pdf path afterwards, and the requests it sent.
try_pdf(loc, h, d, old) ==
    IF ~Truthy(loc.pdf_url)
    THEN [accepted |-> FALSE, file |-> old, head |-> NotSent, get |-> NotSent]
    ELSE IF ~IsPdfLike(head_content_type(h))
    THEN [accepted |-> FALSE, file |-> old, head |-> h, get |-> NotSent]
    ELSE IF download(d, old).ok
    THEN IF is_real_pdf(download(d, old).file)
         THEN [accepted |-> TRUE, file |-> download(d, old).file, head |-> h, get |-> d]
         ELSE [accepted |-> FALSE, file |-> Absent, head |-> h, get |-> d]
    ELSE [accepted |-> FALSE, file |-> download(d, old).file, head |-> h, get |-> d]

\* _try_html on one candidate.
try_html(loc, d, old) ==
    IF ~Truthy(loc.html_url)
    THEN [accepted |-> FALSE, file |-> old, head |-> NotSent, get |-> NotSent]
    ELSE [accepted |-> download(d, old).ok, file |-> download(d, old).file,
          head |-> NotSent, get |-> d]

\* Mutant: fetch_one that stores the record whatever it obtained.
ShouldUpsertAlways(got_pdf, got_html) == TRUE

\* Line 187: whether fetch_one hands the record to the store.
ShouldUpsert(got_pdf, got_html) == got_pdf \/ got_html

\* Mutant: cmd_fetch that looks at pdf_path alone.
HasPathPdfOnly(row) == Truthy(Strip(Or(row.pdf_path, "")))

\* Line 197 of cmd_fetch: the record already has a file.
HasPath(row) == Truthy(Strip(Or(row.pdf_path, ""))) \/ Truthy(Strip(Or(row.html_path, "")))

\* Lines 209-213 of cmd_fetch.
GotOf(new_row) ==
    IF Truthy(Strip(Or(new_row.pdf_path, ""))) THEN "pdf"
    ELSE IF Truthy(Strip(Or(new_row.html_path, ""))) THEN "html"
    ELSE "none"

NoRow == [id |-> None, pdf_path |-> "", html_path |-> "", meta_json |-> ""]

NoAttempt ==
    [pass |-> "none", cand |-> 0, url |-> None, head |-> NotSent, get |-> NotSent,
     head_sends |-> 0, get_sends |-> 0]

NoRun ==
    [snapshot |-> <<>>, pos |-> 0, done |-> 0, pdfs |-> 0, htmls |-> 0, none |-> 0,
     limit |-> 0, email |-> None, prefer_best |-> TRUE, aborted |-> "",
     invoked |-> <<>>]

NoCall ==
    [state |-> "none", item |-> NoRow, updated |-> NoRow, locs |-> <<>>, i |-> 0,
     got_pdf |-> FALSE, got_html |-> FALSE,
     lookups |-> <<>>, upserts |-> 0, last |-> NoAttempt]

NoReg ==
    [state |-> "none", locs |-> <<>>, out |-> <<>>, again |-> <<>>,
     meta |-> Meta("{}"), email |-> None, prefer_best |-> TRUE, resp |-> "fail",
     primary |-> <<>>, lookups |-> <<>>]

(***************************************************************************)
(* State.                                                                  *)
(***************************************************************************)
VARIABLES
    store,     \* the rows of the item store, in rowid order
    files,     \* what is at each path under raw_dir
    pc,        \* where the running command stands
    crawl,     \* the frame of discover_openalex
    run,       \* the frame of cmd_fetch
    call,      \* the frame of the current or last fetch_one of the run
    reqlog,    \* the candidate attempts of that fetch_one that sent a request
    exhausted, \* history: the ids some fetch_one has returned empty-handed for
    reg        \* the frame of a call into the location registry

vars == <<store, files, pc, crawl, run, call, reqlog, exhausted, reg>>

Init ==
    /\ store = <<>>
    /\ files = [p \in Paths |-> Absent]
    /\ pc = "idle"
    /\ crawl = NoCrawl
    /\ run = NoRun
    /\ call = NoCall
    /\ reqlog = <<>>
    /\ exhausted = {}
    /\ reg = NoReg

(***************************************************************************)
(* cmd_discover: one run of the crawler, every yielded record upserted.    *)
(***************************************************************************)
\* Lines 61-76 of discover_openalex: the parameters of the page requests,
\* the first cursor and the page size.
CmdDiscoverStart(MR, PP, KW, FO, MY) ==
    /\ pc = "idle"
    /\ \E mr \in MR, pp \in PP, kw \in KW, fo \in FO, my \in MY :
          crawl' = [NoCrawl EXCEPT !.max_results = mr, !.per_page_arg = pp,
                                   !.keywords = kw, !.filter_oa = fo, !.min_year = my,
                                   !.search = SetIfTruthy(build_search_query(kw)),
                                   !.filter = SetIfTruthy(build_filter_clause(fo, my)),
                                   !.per_page = ClampPerPage(pp), !.cursor = "*"]
    /\ pc' = "crawl"
    /\ UNCHANGED <<store, files, run, call, reqlog, exhausted, reg>>

\* Mutant: a crawler that sends the request again after a failed one.
CrawlRequestRetry(R) ==
    /\ pc = "crawl"
    /\ ~crawl.broke
    /\ LoopCondition(crawl)
    /\ \E resp \in R :
          IF resp.kind # "page" \/ resp.results = <<>>
          THEN /\ crawl' = [crawl EXCEPT !.nreq = @ + 1, !.last = resp]
               /\ store' = store
          ELSE LET ys == YieldLoop(resp.results, crawl.fetched, crawl.max_results)
               IN /\ crawl' = [crawl EXCEPT !.fetched = @ + Len(ys),
                                            !.yielded = @ \o ys,
                                            !.received = @ \o resp.results,
                                            !.cursor = resp.next_cursor,
                                            !.nreq = @ + 1, !.last = resp]
                  /\ store' = UpsertAll(store, ys)
    /\ UNCHANGED <<files, pc, run, call, reqlog, exhausted, reg>>

\* One turn of the while loop of lines 78-105, with the rows cmd_discover
\* writes for the records it yields.  received keeps the records of every
\* page the API has served to this crawl.
CrawlRequest(R) ==
    /\ pc = "crawl"
    /\ ~crawl.broke
    /\ LoopCondition(crawl)
    /\ \E resp \in R :
          IF resp.kind # "page" \/ resp.results = <<>>
          THEN /\ crawl' = [crawl EXCEPT !.broke = TRUE, !.nreq = @ + 1, !.last = resp]
               /\ store' = store
          ELSE LET ys == YieldLoop(resp.results, crawl.fetched, crawl.max_results)
               IN /\ crawl' = [crawl EXCEPT !.fetched = @ + Len(ys),
                                            !.yielded = @ \o ys,
                                            !.received = @ \o resp.results,
                                            !.cursor = resp.next_cursor,
                                            !.nreq = @ + 1, !.last = resp]
                  /\ store' = UpsertAll(store, ys)
    /\ UNCHANGED <<files, pc, run, call, reqlog, exhausted, reg>>

\* The loop has ended: cmd_discover logs its count and returns.
CmdDiscoverEnd ==
    /\ pc = "crawl"
    /\ crawl.broke \/ ~LoopCondition(crawl)
    /\ pc' = "idle"
    /\ crawl' = NoCrawl
    /\ UNCHANGED <<store, files, run, call, reqlog, exhausted, reg>>

(***************************************************************************)
(* cmd_fetch and fetch_one.                                                *)
(***************************************************************************)
CurrentRow == run.snapshot[run.pos]

InLoop == pc = "fetch_loop" /\ run.pos <= Len(run.snapshot) /\ run.done < run.limit

PdfPathOf(item) == ArtifactPath(safe_name(item.id), "pdf")

HtmlPathOf(item) == ArtifactPath(safe_name(item.id), "html")

\* Lines 181-193: the options and the rows the run will walk.
CmdFetchStart(L, E, P) ==
    /\ pc = "idle"
    /\ \E limit \in L, email \in E, prefer \in P :
          run' = [NoRun EXCEPT !.snapshot = iter_items(store), !.pos = 1,
                               !.limit = limit, !.email = email,
                               !.prefer_best = prefer]
    /\ pc' = "fetch_loop"
    /\ UNCHANGED <<store, files, crawl, call, reqlog, exhausted, reg>>

\* Mutant: a skipped row that counts as attempted.
FetchSkipCounted ==
    /\ InLoop
    /\ HasPath(CurrentRow)
    /\ run' = [run EXCEPT !.pos = @ + 1, !.done = @ + 1]
    /\ UNCHANGED <<store, files, pc, crawl, call, reqlog, exhausted, reg>>

\* Lines 197-198: a row that has a file is passed over.
FetchSkip ==
    /\ InLoop
    /\ HasPath(CurrentRow)
    /\ run' = [run EXCEPT !.pos = @ + 1]
    /\ UNCHANGED <<store, files, pc, crawl, call, reqlog, exhausted, reg>>

\* Lines 145-168 of fetch_one: the candidate list is resolved.
FetchInvoke(U) ==
    /\ InLoop
    /\ ~HasPath(CurrentRow)
    /\ \E resp \in U :
          LET meta == ParseMeta(Or(CurrentRow.meta_json, "{}"))
          IN call' = [NoCall EXCEPT
                        !.state = "active", !.item = CurrentRow,
                        !.updated = CurrentRow, !.i = 1,
                        !.locs = ResolveLocations(meta, run.email, run.prefer_best, resp),
                        !.lookups = IF Truthy(run.email)
                                    THEN EnrichLookup(meta, run.email) ELSE <<>>]
    /\ run' = [run EXCEPT !.invoked = Append(@, CurrentRow.id)]
    /\ reqlog' = <<>>
    /\ pc' = "pdf_pass"
    /\ UNCHANGED <<store, files, crawl, exhausted, reg>>

\* Mutant: fetch_one that sets html_path before it looks at what the HTML
\* pass obtained.
ReturnMarksFailure(c) ==
    /\ store' = upsert_item(store,
                    IF c.got_pdf \/ c.got_html THEN c.updated
                    ELSE [c.updated EXCEPT !.html_path = "raw/item_0.html"])
    /\ call' = [c EXCEPT !.state = "returned", !.upserts = 1]
    /\ run' = [run EXCEPT !.pos = @ + 1, !.done = @ + 1]
    /\ pc' = "fetch_loop"

\* Lines 187-189 of fetch_one and lines 209-221 of cmd_fetch: the record
\* is stored if something was obtained, and the run counts the outcome.
Return(c) ==
    /\ store' = IF ShouldUpsert(c.got_pdf, c.got_html)
                THEN upsert_item(store, c.updated) ELSE store
    /\ call' = [c EXCEPT !.state = "returned",
                         !.upserts = IF ShouldUpsert(c.got_pdf, c.got_html) THEN 1 ELSE 0]
    /\ run' = [run EXCEPT !.pos = @ + 1, !.done = @ + 1,
                          !.pdfs = IF GotOf(c.updated) = "pdf" THEN @ + 1 ELSE @,
                          !.htmls = IF GotOf(c.updated) = "html" THEN @ + 1 ELSE @,
                          !.none = IF GotOf(c.updated) = "none" THEN @ + 1 ELSE @]
    /\ pc' = "fetch_loop"

\* An exception no frame catches: it leaves _download or upsert_item,
\* fetch_one and cmd_fetch, and the command ends without its summary.
RaiseOut(c, err) ==
    /\ call' = [c EXCEPT !.state = "raised"]
    /\ run' = [run EXCEPT !.aborted = err]
    /\ pc' = "idle"
    /\ store' = store

\* Line 26 of _make_session: the default of retries.
Retries == 3

\* Mutant: a Retry that re-sends for as long as the server fails.
SendsUnbounded(failures, retries) == 1 + failures

\* Lines 29-40 of _make_session: the adapter re-sends a GET or a HEAD that
\* met a connection error, a read error or a status of the forcelist, for
\* as long as the budget of Retry(total=retries) lasts.  failures is how
\* many such answers in a row the server has for the request.
Sends(failures, retries) == 1 + Min2(failures, retries)

\* What the request ends in: once the budget is spent the adapter gives up
\* and the caller sees a failed request.
AfterRetries(outcome, failures, retries) ==
    IF failures > retries THEN "error" ELSE outcome

Attempt(pass, url, r, nh, nd) ==
    [pass |-> pass, cand |-> call.i, url |-> url, head |-> r.head, get |-> r.get,
     head_sends |-> IF r.head = NotSent THEN 0 ELSE Sends(nh, Retries),
     get_sends |-> IF r.get = NotSent THEN 0 ELSE Sends(nd, Retries)]

\* Mutant: updated bound to the caller's dict instead of a copy of it.
SetPathAliased(c, field, path) ==
    [c EXCEPT !.updated[field] = path, !.item[field] = path]

\* Line 164 and lines 174 and 183 of fetch_one: updated is a copy of item,
\* and the path of the artifact is assigned to the copy.
SetPath(c, field, path) == [c EXCEPT !.updated[field] = path]

\* Mutant: a loop that stays on the candidate that failed.
SameCandidate(c) == c

\* Lines 171 and 180: the for loop moves to the next entry of locs.
NextCandidate(c) == [c EXCEPT !.i = @ + 1]

\* What the server delivered to an attempt: "ok" is a complete non-empty
\* body (for a PDF attempt one that starts with the signature), "badsig" a
\* complete body without the signature on a PDF attempt, "fail" the rest.
Verdict(pass, get) ==
    IF pass = "pdf"
    THEN (IF get = "ok_pdf" THEN "ok" ELSE IF get = "ok_other" THEN "badsig" ELSE "fail")
    ELSE (IF get \in {"ok_pdf", "ok_other"} THEN "ok" ELSE "fail")

\* What the log keeps of an attempt that sent a request.
LogEntry(pass, url, r) ==
    [pass |-> pass, cand |-> call.i, url |-> url, verdict |-> Verdict(pass, r.get)]

\* The ids whose fetch_one has walked every candidate and was served nothing
\* acceptable, this one included if it returns now.
Exhausted(returns, log, id) ==
    IF returns /\ \A n \in 1..Len(log) : log[n].verdict # "ok"
    THEN exhausted \cup {id} ELSE exhausted

Logged(pass, url, r) ==
    IF r.head = NotSent /\ r.get = NotSent THEN reqlog
    ELSE Append(reqlog, LogEntry(pass, url, r))

\* Lines 171-176: one turn of the PDF loop.
TryPdf(H, D, W, N) ==
    /\ pc = "pdf_pass"
    /\ call.i <= Len(call.locs)
    /\ \E h \in H, d \in D, w \in W, nh \in N, nd \in N :
          LET loc == call.locs[call.i]
              path == PdfPathOf(call.item)
              r == try_pdf(loc, AfterRetries(h, nh, Retries),
                           AfterRetries(d, nd, Retries), files[path])
              c == [call EXCEPT !.last = Attempt("pdf", loc.pdf_url, r, nh, nd)]
          IN /\ files' = [files EXCEPT ![path] = r.file]
             /\ reqlog' = Logged("pdf", loc.pdf_url, r)
             /\ exhausted' = Exhausted(r.accepted, Logged("pdf", loc.pdf_url, r),
                                       call.item.id)
             /\ IF r.get \in DlFaults
                THEN RaiseOut(c, "OSError")
                ELSE IF r.accepted /\ w = "fail"
                THEN RaiseOut([SetPath(c, "pdf_path", path) EXCEPT !.got_pdf = TRUE],
                              "sqlite3.Error")
                ELSE IF r.accepted
                THEN Return([SetPath(c, "pdf_path", path) EXCEPT !.got_pdf = TRUE])
                ELSE /\ call' = NextCandidate(c)
                     /\ UNCHANGED <<store, run, pc>>
    /\ UNCHANGED <<crawl, reg>>

\* Mutant: a PDF loop that gives up after its first candidate.
PdfLoopDoneAfterFirst(c) == c.i > 1

\* Line 171: the for loop over locs has no candidate left.
PdfLoopDone(c) == c.i > Len(c.locs)

\* Line 179: the PDF loop has run out of candidates.
PdfPassExhausted ==
    /\ pc = "pdf_pass"
    /\ PdfLoopDone(call)
    /\ ~call.got_pdf
    /\ call' = [call EXCEPT !.i = 1]
    /\ pc' = "html_pass"
    /\ UNCHANGED <<store, files, crawl, run, reqlog, exhausted, reg>>

\* Lines 180-185: one turn of the HTML loop.
TryHtml(D, W, N) ==
    /\ pc = "html_pass"
    /\ call.i <= Len(call.locs)
    /\ \E d \in D, w \in W, nd \in N :
          LET loc == call.locs[call.i]
              path == HtmlPathOf(call.item)
              r == try_html(loc, AfterRetries(d, nd, Retries), files[path])
              c == [call EXCEPT !.last = Attempt("html", loc.html_url, r, 0, nd)]
          IN /\ files' = [files EXCEPT ![path] = r.file]
             /\ reqlog' = Logged("html", loc.html_url, r)
             /\ exhausted' = Exhausted(r.accepted, Logged("html", loc.html_url, r),
                                       call.item.id)
             /\ IF r.get \in DlFaults
                THEN RaiseOut(c, "OSError")
                ELSE IF r.accepted /\ w = "fail"
                THEN RaiseOut([SetPath(c, "html_path", path) EXCEPT !.got_html = TRUE],
                              "sqlite3.Error")
                ELSE IF r.accepted
                THEN Return([SetPath(c, "html_path", path) EXCEPT !.got_html = TRUE])
                ELSE /\ call' = NextCandidate(c)
                     /\ UNCHANGED <<store, run, pc>>
    /\ UNCHANGED <<crawl, reg>>

\* Both loops ran out: fetch_one returns what it was given.
HtmlPassExhausted ==
    /\ pc = "html_pass"
    /\ call.i > Len(call.locs)
    /\ Return(call)
    /\ exhausted' = Exhausted(TRUE, reqlog, call.item.id)
    /\ UNCHANGED <<files, crawl, reqlog, reg>>

\* Lines 194-195 and 223-229: the loop ends and the summary is logged.
CmdFetchFinish ==
    /\ pc = "fetch_loop"
    /\ ~InLoop
    /\ pc' = "idle"
    /\ run' = NoRun
    /\ call' = NoCall
    /\ reqlog' = <<>>
    /\ UNCHANGED <<store, files, crawl, exhausted, reg>>

(***************************************************************************)
(* Specifications.                                                         *)
(*   Spec       the pipeline: discover runs and fetch runs in any order    *)
(*              over a store of several records; a discover run asks for   *)
(*              one record, a probe fails or names another type, and a     *)
(*              download is refused, breaks off (PDF), comes back empty    *)
(*              (HTML) or delivers a complete body.                        *)
(*   SpecFetch  fetch runs on one discovered record under every behaviour  *)
(*              of the network and of the enrichment API.                  *)
(*   SpecCrawl  discover runs under every behaviour of the bibliographic   *)
(*              API.                                                       *)
(***************************************************************************)
PerPageInputs == {-1, 0, 25, 200, 201}

Next ==
    \/ CmdDiscoverStart({1}, {25}, {<<>>}, {TRUE}, {<<>>})
    \/ CrawlRequest(Responses(1))
    \/ CmdDiscoverEnd
    \/ CmdFetchStart(0..MaxLimit, {None, "me@example.org"}, {TRUE})
    \/ FetchSkip
    \/ FetchInvoke({"fail", "U1"})
    \/ TryPdf({"error", "text/html"}, {"non200", "cut", "ok_pdf", "ok_other"}, {"ok"}, {0})
    \/ PdfPassExhausted
    \/ TryHtml({"non200", "empty", "ok_other"}, {"ok"}, {0})
    \/ HtmlPassExhausted
    \/ CmdFetchFinish

Spec == Init /\ [][Next]_vars

InitFetch ==
    /\ \E k \in Works : store = <<DiscoverRow(k)>>
    /\ files = [p \in Paths |-> Absent]
    /\ pc = "idle"
    /\ crawl = NoCrawl
    /\ run = NoRun
    /\ call = NoCall
    /\ reqlog = <<>>
    /\ exhausted = {}
    /\ reg = NoReg

\* How many answers in a row that call for a re-send the server has for a
\* request: none, or one more than the budget of the session.
ServerFailures == {0, Retries + 1}

NextFetch ==
    \/ CmdFetchStart({1}, {None, "me@example.org"}, BOOLEAN)
    \/ FetchSkip
    \/ FetchInvoke(UpwResponses)
    \/ TryPdf(HeadOutcomes, DlOutcomes, {"ok"}, ServerFailures)
    \/ PdfPassExhausted
    \/ TryHtml(DlOutcomes, {"ok"}, ServerFailures)
    \/ HtmlPassExhausted
    \/ CmdFetchFinish

SpecFetch == InitFetch /\ [][NextFetch]_vars

\* SpecFetchLive: fetch runs on one discovered record with a command that
\* keeps running: every request carries a timeout and the loops are
\* sequential code, so a step that can be taken is taken.  A probe names
\* PDF, names another type or fails; a download is refused or delivers a
\* complete body with or without the PDF signature; a request meets no
\* failure that calls for a re-send, or more of them than the budget.
NextFetchLive ==
    \/ CmdFetchStart({1}, {None, "me@example.org"}, {TRUE})
    \/ FetchSkip
    \/ FetchInvoke({"fail", "U1"})
    \/ TryPdf({"Application/PDF", "text/html", "error"}, {"non200", "ok_pdf", "ok_other"},
              {"ok"}, ServerFailures)
    \/ PdfPassExhausted
    \/ TryHtml({"non200", "ok_other"}, {"ok"}, ServerFailures)
    \/ HtmlPassExhausted
    \/ CmdFetchFinish

SpecFetchLive == InitFetch /\ [][NextFetchLive]_vars /\ WF_vars(NextFetchLive)

\* SpecErrors: fetch runs over a store of two records in which a write to
\* raw_dir or to the store can fail.
InitErrors ==
    /\ \E k1 \in {"M1", "M2"}, k2 \in {"M3", "M4"} :
          store \in {<<DiscoverRow(k1), DiscoverRow(k2)>>, <<DiscoverRow(k2), DiscoverRow(k1)>>}
    /\ files = [p \in Paths |-> Absent]
    /\ pc = "idle"
    /\ crawl = NoCrawl
    /\ run = NoRun
    /\ call = NoCall
    /\ reqlog = <<>>
    /\ exhausted = {}
    /\ reg = NoReg

NextErrors ==
    \/ CmdFetchStart(1..MaxLimit, {None}, {TRUE})
    \/ FetchSkip
    \/ FetchInvoke({"fail"})
    \/ TryPdf({"noheader"}, {"non200", "ok_pdf"} \cup DlFaults, StoreWrites, {0})
    \/ PdfPassExhausted
    \/ TryHtml({"non200", "ok_other"} \cup DlFaults, StoreWrites, {0})
    \/ HtmlPassExhausted
    \/ CmdFetchFinish

SpecErrors == InitErrors /\ [][NextErrors]_vars

NextCrawl ==
    \/ CmdDiscoverStart(-1..MaxCap, PerPageInputs, {<<>>}, {TRUE}, {<<>>})
    \/ CrawlRequest(Responses(MaxPageLen))
    \/ CmdDiscoverEnd

SpecCrawl == Init /\ [][NextCrawl]_vars

\* SpecCrawlLive: SpecCrawl with a command that keeps running.  The page
\* request carries a timeout of 30 seconds and the sleep after a failure
\* is one second, so a step that can be taken is taken.
SpecCrawlLive == SpecCrawl /\ WF_vars(NextCrawl)

\* SpecQuery: discover runs for every keyword list and filter options; the
\* API answers the first request with a failure or an empty page.
KeywordLists == SeqsUpTo(Keywords, MaxKeywords)

NextQuery ==
    \/ CmdDiscoverStart({1}, {25}, KeywordLists, BOOLEAN, MinYears)
    \/ CrawlRequest(Responses(0))
    \/ CmdDiscoverEnd

SpecQuery == Init /\ [][NextQuery]_vars

(***************************************************************************)
(* normalize_locations on its own: SpecNorm hands it every list of up to   *)
(* MaxLocs Location values and then hands it its own output.               *)
(***************************************************************************)
LocValues ==
    {Location(p, h, pr, OA) : p \in {None, "", "p"}, h \in {None, "h"}, pr \in {0, 5, 10}}

InitNorm ==
    /\ store = <<>>
    /\ files = [p \in Paths |-> Absent]
    /\ pc = "idle"
    /\ crawl = NoCrawl
    /\ run = NoRun
    /\ call = NoCall
    /\ reqlog = <<>>
    /\ exhausted = {}
    /\ \E L \in SeqsUpTo(LocValues, MaxLocs) :
          reg = [NoReg EXCEPT !.state = "input", !.locs = L]

Normalize ==
    /\ reg.state = "input"
    /\ reg' = [reg EXCEPT !.state = "once", !.out = normalize_locations(reg.locs)]
    /\ UNCHANGED <<store, files, pc, crawl, run, call, reqlog, exhausted>>

NormalizeAgain ==
    /\ reg.state = "once"
    /\ reg' = [reg EXCEPT !.state = "twice", !.again = normalize_locations(reg.out)]
    /\ UNCHANGED <<store, files, pc, crawl, run, call, reqlog, exhausted>>

NextNorm == Normalize \/ NormalizeAgain

SpecNorm == InitNorm /\ [][NextNorm]_vars

(***************************************************************************)
(* The registry on its own: SpecRegistry resolves the candidate list of    *)
(* every metadata blob of a bounded shape as lines 145-160 of fetch_one do, *)
(* the mapper first, then the enrichment if an email is configured.        *)
(***************************************************************************)
\* The location dicts a blob carries: a direct PDF url, a landing page, or
\* neither.
BlobDicts ==
    {LocDict("p", None, None, None), LocDict(None, None, None, "h"),
     LocDict(None, "", None, None)}

OptionalDict == {<<>>} \cup {<<d>> : d \in BlobDicts}

MetaBlobs ==
    {[id |-> id, doi |-> doi, title |-> "T", year |-> 2021,
      authorships |-> au, primary_key |-> pk,
      best_oa_location |-> b, primary_location |-> pr, locations |-> ls] :
        id \in {"https://openalex.org/W1", None}, doi \in {None, "", "10.1/b"},
        au \in BOOLEAN, b \in OptionalDict,
        pk \in {TRUE}, pr \in OptionalDict, ls \in SeqsUpTo(BlobDicts, MaxListed)}
    \cup
    {[id |-> id, doi |-> doi, title |-> "T", year |-> 2021,
      authorships |-> au, primary_key |-> FALSE,
      best_oa_location |-> b, primary_location |-> <<>>, locations |-> ls] :
        id \in {"https://openalex.org/W1", None}, doi \in {None, "", "10.1/b"},
        au \in BOOLEAN, b \in OptionalDict, ls \in SeqsUpTo(BlobDicts, MaxListed)}

InitRegistry ==
    /\ store = <<>>
    /\ files = [p \in Paths |-> Absent]
    /\ pc = "idle"
    /\ crawl = NoCrawl
    /\ run = NoRun
    /\ call = NoCall
    /\ reqlog = <<>>
    /\ exhausted = {}
    /\ \E m \in MetaBlobs, e \in {None, "", "me@example.org"}, pb \in BOOLEAN :
          reg = [NoReg EXCEPT !.state = "meta", !.meta = m, !.email = e,
                              !.prefer_best = pb]

\* Line 150 of fetch_one.
LocationsFromMeta ==
    /\ reg.state = "meta"
    /\ reg' = [reg EXCEPT !.state = "mapped", !.primary = locations_from_meta(reg.meta)]
    /\ UNCHANGED <<store, files, pc, crawl, run, call, reqlog, exhausted>>

\* Lines 153-160 of fetch_one; resp is the answer to the lookup, if one is
\* sent.
EnrichLocations(U) ==
    /\ reg.state = "mapped"
    /\ \E resp \in U :
          LET lookups == IF Truthy(reg.email) THEN EnrichLookup(reg.meta, reg.email)
                         ELSE <<>>
          IN reg' = [reg EXCEPT
                       !.state = "resolved",
                       !.lookups = lookups,
                       !.resp = IF lookups = <<>> THEN "none" ELSE resp,
                       !.out = IF Truthy(reg.email)
                               THEN enrich_locations_with_unpaywall(
                                        reg.primary, reg.meta, reg.email,
                                        reg.prefer_best, resp)
                               ELSE reg.primary]
    /\ UNCHANGED <<store, files, pc, crawl, run, call, reqlog, exhausted>>

NextRegistry == LocationsFromMeta \/ EnrichLocations(UpwResponses)

SpecRegistry == InitRegistry /\ [][NextRegistry]_vars

(***************************************************************************)
(* Properties.                                                             *)
(***************************************************************************)
Returned == call.state = "returned"

HasOk(log) == \E n \in 1..Len(log) : log[n].verdict = "ok"

PathsEmpty(row) == row.pdf_path = "" /\ row.html_path = ""

Take(s, n) == SubSeq(s, 1, Min2(Len(s), Max2(0, n)))

\* C1: a candidate whose PDF bytes lack the signature is rejected (no
\* pdf_path from it, its file removed, the walk goes on to the next
\* candidate); a returned pdf_path is the artifact of the first candidate in
\* list order that was served a complete body with the signature: every
\* earlier candidate with a PDF url was attempted, in list order, and served
\* nothing acceptable, and no request follows the accepted one.
C1_FirstValidPdfWins ==
    /\ \A n \in 1..Len(reqlog) :
          reqlog[n].pass = "pdf" /\ reqlog[n].verdict = "badsig" =>
             /\ ~(n = Len(reqlog) /\ GotOf(call.updated) = "pdf")
             /\ n = Len(reqlog) /\ pc = "pdf_pass" =>
                   /\ call.i > reqlog[n].cand
                   /\ call.last.cand = reqlog[n].cand => call.i = reqlog[n].cand + 1
                   /\ call.updated.pdf_path = ""
                   /\ files[PdfPathOf(call.item)] = Absent
    /\ Returned /\ GotOf(call.updated) = "pdf" =>
          /\ reqlog # <<>>
          /\ LET a == reqlog[Len(reqlog)]
             IN /\ a.pass = "pdf" /\ a.verdict = "ok"
                /\ a.url = call.locs[a.cand].pdf_url
                /\ call.updated.pdf_path = PdfPathOf(call.item)
                /\ files[PdfPathOf(call.item)] = "pdf"
                /\ \A n \in 1..(Len(reqlog) - 1) :
                      /\ reqlog[n].verdict # "ok"
                      /\ reqlog[n].cand < reqlog[n + 1].cand
                /\ \A j \in 1..(a.cand - 1) :
                      Truthy(call.locs[j].pdf_url) =>
                         \E n \in 1..Len(reqlog) :
                            reqlog[n].pass = "pdf" /\ reqlog[n].cand = j

\* C1 witness: the first candidate was served a body without the signature,
\* the second a valid PDF, and fetch_one returned the second's artifact.
C1_Witness ==
    /\ Returned /\ GotOf(call.updated) = "pdf"
    /\ Len(reqlog) = 2
    /\ reqlog[1].verdict = "badsig" /\ reqlog[1].cand = 1
    /\ reqlog[2].verdict = "ok" /\ reqlog[2].cand = 2
    /\ Len(call.locs) > 2

\* C2: an HTML download is attempted only after every candidate with a PDF
\* url has been attempted for its PDF and none was accepted; so once any
\* candidate is served a valid PDF the outcome is pdf-obtained, no html_path
\* is produced and no HTML request is sent.
C2_PdfPassBeforeHtml ==
    /\ \A n \in 1..Len(reqlog) :
          reqlog[n].pass = "html" =>
             /\ \A m \in n..Len(reqlog) : reqlog[m].pass = "html"
             /\ \A j \in 1..Len(call.locs) :
                   Truthy(call.locs[j].pdf_url) =>
                      \E m \in 1..(n - 1) :
                         /\ reqlog[m].pass = "pdf" /\ reqlog[m].cand = j
                         /\ reqlog[m].verdict # "ok"
    /\ (\E n \in 1..Len(reqlog) : reqlog[n].pass = "pdf" /\ reqlog[n].verdict = "ok") =>
          /\ Returned
          /\ GotOf(call.updated) = "pdf"
          /\ call.updated.html_path = ""
          /\ \A n \in 1..Len(reqlog) : reqlog[n].pass = "pdf"

\* C2 witness: the most preferred candidate has only an HTML url, a less
\* preferred one yields the PDF, and the outcome is pdf-obtained.
C2_Witness ==
    /\ Returned /\ GotOf(call.updated) = "pdf"
    /\ ~Truthy(call.locs[1].pdf_url) /\ Truthy(call.locs[1].html_url)
    /\ reqlog[Len(reqlog)].cand > 1

OnlyHtmlCandidates ==
    /\ call.state # "none"
    /\ call.locs # <<>>
    /\ \A j \in 1..Len(call.locs) :
          ~Truthy(call.locs[j].pdf_url) /\ Truthy(call.locs[j].html_url)

\* C3: when every candidate has only an html_url, no PDF probe or download
\* is sent; the HTML pass requests the candidates in list order, which is
\* ascending priority, and the first complete non-empty body ends it with
\* html_path set from that candidate.
C3_HtmlOnlyCandidates ==
    OnlyHtmlCandidates =>
       /\ \A n \in 1..Len(reqlog) :
             /\ reqlog[n].pass = "html"
             /\ reqlog[n].cand = n
             /\ reqlog[n].url = call.locs[n].html_url
             /\ n < Len(reqlog) =>
                   /\ reqlog[n].verdict # "ok"
                   /\ call.locs[n].priority <= call.locs[n + 1].priority
       /\ call.last.pass = "pdf" => call.last.head = NotSent /\ call.last.get = NotSent
       /\ HasOk(reqlog) =>
             /\ Returned
             /\ GotOf(call.updated) = "html"
             /\ call.updated.html_path = HtmlPathOf(call.item)
             /\ call.updated.pdf_path = ""
       /\ Returned /\ GotOf(call.updated) # "none" => HasOk(reqlog)

\* C3 witness: candidates of priority 0 and 5 with only an html_url; the
\* first download succeeded and the second url was never requested.
C3_Witness ==
    /\ OnlyHtmlCandidates /\ Returned
    /\ Len(call.locs) = 2
    /\ call.locs[1].priority = 0 /\ call.locs[2].priority = 5
    /\ Len(reqlog) = 1 /\ reqlog[1].verdict = "ok"
    /\ GotOf(call.updated) = "html"

NewPath(c) ==
    c.updated.pdf_path # c.item.pdf_path \/ c.updated.html_path # c.item.html_path

\* C4: fetch_one calls upsert exactly when one of the passes produced a new
\* path, and then the stored record is the returned one; when the candidates
\* are exhausted the returned record equals the input record and the store
\* is what it was.
C4_UpsertIffNewPath ==
    [][call.state = "active" /\ call'.state = "returned" =>
          /\ call'.upserts = 1 <=> NewPath(call')
          /\ NewPath(call') =>
                /\ StoredRow(store', call'.item.id) = call'.updated
                /\ Len(store') = Len(store)
          /\ ~NewPath(call') =>
                /\ call'.updated = call'.item
                /\ store' = store]_vars

\* C4 witness: a fetch_one that sent requests, obtained nothing and returned
\* with two records in the store.
C4_Witness ==
    /\ Returned /\ ~NewPath(call)
    /\ call.upserts = 0
    /\ Len(reqlog) >= 2
    /\ Len(store) = 2

\* C5: for a record handed in with both paths empty, an outcome in which
\* some download was served an acceptable body populates exactly one of
\* pdf_path and html_path, and any other outcome populates neither.
C5_ExactlyOnePath ==
    Returned /\ PathsEmpty(call.item) =>
       LET n == Cardinality({f \in {"pdf_path", "html_path"} : call.updated[f] # ""})
       IN IF HasOk(reqlog) THEN n = 1 ELSE n = 0

\* C5 witness: the PDF pass was served nothing acceptable and the HTML pass
\* obtained a file.
C5_Witness ==
    /\ Returned /\ PathsEmpty(call.item)
    /\ GotOf(call.updated) = "html"
    /\ \E n \in 1..Len(reqlog) : reqlog[n].pass = "pdf"

FetchRunning == pc \in {"fetch_loop", "pdf_pass", "html_pass"}

\* C6: cmd_fetch invokes fetch_one only on a record whose stored pdf_path
\* and html_path are both empty at that moment, and a fetch run leaves every
\* stored record that has a path as it is.
C6_PathIsTerminal ==
    [][/\ call.state # "active" /\ call'.state = "active" =>
             /\ call'.item.id \in StoredIds(store)
             /\ call'.item = StoredRow(store, call'.item.id)
             /\ PathsEmpty(StoredRow(store, call'.item.id))
       /\ FetchRunning =>
             \A id \in StoredIds(store) :
                ~PathsEmpty(StoredRow(store, id)) =>
                   StoredRow(store', id) = StoredRow(store, id)]_vars

\* C6 witness: a fetch run has passed over a record that has a path and
\* stands before one that has none.
C6_Witness ==
    /\ pc = "fetch_loop"
    /\ Len(run.snapshot) = 2 /\ run.pos = 2 /\ run.done = 0 /\ run.limit > 0
    /\ ~PathsEmpty(run.snapshot[1])
    /\ PathsEmpty(run.snapshot[2])

\* C7: once a record id has a non-empty pdf_path or html_path in the store,
\* no later step leaves that id with both paths empty.
C7_PathNeverErased ==
    [][\A id \in StoredIds(store) :
          ~PathsEmpty(StoredRow(store, id)) =>
             id \in StoredIds(store') /\ ~PathsEmpty(StoredRow(store', id))]_vars

\* C8: a fetch_one that was served nothing acceptable leaves the store as it
\* was, with the record in it and both its paths empty; and a fetch run that
\* reaches, within its limit, a record some earlier fetch_one exhausted
\* passes it to fetch_one again.
C8_FailureNotSticky ==
    [][/\ call.state = "active" /\ call'.state = "returned" /\ ~HasOk(reqlog') =>
             /\ store' = store
             /\ call'.item.id \in StoredIds(store')
             /\ PathsEmpty(StoredRow(store', call'.item.id))
       /\ InLoop /\ CurrentRow.id \in exhausted /\ PathsEmpty(CurrentRow) =>
             call'.state = "active" /\ call'.item = CurrentRow]_vars

\* C8 witness: a record that an earlier fetch_one exhausted has now been
\* fetched.
C8_Witness ==
    /\ Returned
    /\ call.item.id \in exhausted
    /\ HasOk(reqlog)
    /\ ~PathsEmpty(StoredRow(store, call.item.id))

\* C9: a crawl never yields more than max_results records in total (none
\* when max_results is not positive).
C9_YieldCap == Len(crawl.yielded) <= Max2(0, crawl.max_results)

\* C9 witness: the cap was reached in the middle of a page.
C9_Witness ==
    /\ pc = "crawl"
    /\ crawl.nreq = 2
    /\ Len(crawl.yielded) = crawl.max_results
    /\ Len(crawl.last.results) = 2
    /\ crawl.yielded[Len(crawl.yielded)] = crawl.last.results[1]
    /\ crawl.last.results[2] # crawl.last.results[1]

EndsCrawl(resp) ==
    resp.kind = "page" /\ (resp.results = <<>> \/ ~Truthy(resp.next_cursor))

\* C10: after a page that carries no next cursor, or no results, the crawl
\* sends no further request and ends; and the records of a page without a
\* next cursor are yielded up to the cap.
C10_StopsWithoutCursor ==
    [][/\ pc = "crawl" /\ crawl.nreq > 0 /\ EndsCrawl(crawl.last) =>
             pc' = "idle" /\ store' = store
       /\ pc' = "crawl" /\ crawl'.nreq = crawl.nreq + 1 /\ EndsCrawl(crawl'.last) =>
             crawl'.yielded = crawl.yielded
                \o Take(crawl'.last.results, crawl.max_results - Len(crawl.yielded))]_vars

\* C10 witness: a page with records and no next cursor has been received
\* while the cap is not reached.
C10_Witness ==
    /\ pc = "crawl"
    /\ crawl.last.kind = "page" /\ crawl.last.results # <<>>
    /\ crawl.last.next_cursor = None
    /\ crawl.fetched < crawl.max_results

\* C11: a page request that fails (transport error, non-200 status, body
\* that is not JSON) yields nothing and writes nothing, the crawl then ends in
\* the ordinary way without sending another request, and at that point every
\* record of the pages served before, up to the cap, has been yielded and
\* stored by the caller.
C11_FailureStopsCrawl ==
    [][/\ pc = "crawl" /\ crawl'.nreq = crawl.nreq + 1 /\ crawl'.last.kind \in FailKinds =>
             /\ pc' = "crawl"
             /\ crawl'.yielded = crawl.yielded
             /\ crawl'.yielded = Take(crawl'.received, crawl'.max_results)
             /\ store' = store
             /\ \A n \in 1..Len(crawl'.yielded) :
                   DiscoverRow(crawl'.yielded[n]).id \in StoredIds(store')
       /\ pc = "crawl" /\ crawl.nreq > 0 /\ crawl.last.kind \in FailKinds =>
             /\ pc' = "idle"
             /\ store' = store]_vars

\* C11 witness: the second page request failed after a first page whose
\* records were yielded.
C11_Witness ==
    /\ pc = "crawl"
    /\ crawl.nreq = 2
    /\ crawl.last.kind \in FailKinds
    /\ crawl.yielded # <<>>
    /\ crawl.fetched < crawl.max_results

\* C12: normalize_locations applied to its own output returns that output,
\* element for element.
C12_NormalizeIdempotent ==
    reg.state = "twice" =>
       /\ Len(reg.again) = Len(reg.out)
       /\ \A n \in 1..Len(reg.out) : reg.again[n] = reg.out[n]

\* C12 witness: a list that normalisation both shortened and reordered has
\* been normalised twice.
C12_Witness ==
    /\ reg.state = "twice"
    /\ Len(reg.locs) = 3 /\ Len(reg.out) = 2
    /\ reg.out[1] # reg.out[2]
    /\ reg.out # SelectSeq(reg.locs, LAMBDA l : l \in {reg.out[1], reg.out[2]})

Retained(l) == l.pdf_url \notin {None, ""} \/ l.html_url \notin {None, ""}

IsNormalized(locs) ==
    /\ \A n \in 1..Len(locs) :
          locs[n].pdf_url \notin {None, ""} \/ locs[n].html_url \notin {None, ""}
    /\ \A n \in 1..(Len(locs) - 1) : locs[n].priority <= locs[n + 1].priority

\* C13: the candidate list fetch_one walks, whatever the metadata blob, the
\* answer of the enrichment API and prefer_best, has no entry without a url
\* and is in non-decreasing priority.
C13_CandidatesNormalized ==
    /\ reg.state = "resolved" => IsNormalized(reg.out)
    /\ call.state # "none" => IsNormalized(call.locs)

\* C13 witness: the enrichment added a candidate that belongs between two
\* candidates of the primary mapper, and one of its entries had no url.
C13_Witness ==
    /\ reg.state = "resolved"
    /\ reg.resp = "U2"
    /\ Len(reg.primary) >= 2
    /\ reg.primary[Len(reg.primary)].priority > 5
    /\ \E n \in 2..(Len(reg.out) - 1) :
          /\ reg.out[n].source = UPW
          /\ reg.out[n - 1].source = OA /\ reg.out[n + 1].source = OA
          /\ reg.out[n].priority < reg.out[n + 1].priority

\* C14: the output of normalize_locations is the retained entries of its
\* input (those with a pdf_url or an html_url), unaltered and as many, in
\* non-decreasing priority, those of one priority in their input order.
C14_StableSort ==
    reg.state = "once" =>
       /\ \A n \in 1..(Len(reg.out) - 1) : reg.out[n].priority <= reg.out[n + 1].priority
       /\ Len(reg.out) = Len(SelectSeq(reg.locs, Retained))
       /\ \A pr \in {reg.locs[n].priority : n \in 1..Len(reg.locs)} :
             SelectSeq(reg.out, LAMBDA l : l.priority = pr)
                = SelectSeq(reg.locs, LAMBDA l : Retained(l) /\ l.priority = pr)

\* C14 witness: two different retained entries of one priority came after an
\* entry of a greater priority and kept their order in the output.
C14_Witness ==
    /\ reg.state = "once"
    /\ Len(reg.locs) = 3 /\ Len(reg.out) = 3
    /\ reg.locs[1].priority > reg.locs[2].priority
    /\ reg.locs[2].priority = reg.locs[3].priority
    /\ reg.locs[2] # reg.locs[3]
    /\ reg.out = <<reg.locs[2], reg.locs[3], reg.locs[1]>>

\* id without the OpenAlex pattern, and not both authorships and
\* primary_location among the keys.
Unmatched(meta) ==
    meta.id # "https://openalex.org/W1" /\ ~(meta.authorships /\ meta.primary_key)

CallMeta == ParseMeta(Or(call.item.meta_json, "{}"))

\* C15 as claimed: fetch_one on a record whose metadata matches no mapper
\* has no candidate, sends no request, writes nothing to the store and
\* returns the record unfetched.
C15_DetectionMiss ==
    call.state # "none" /\ Unmatched(CallMeta) =>
       /\ call.locs = <<>>
       /\ reqlog = <<>>
       /\ Returned => call.upserts = 0 /\ PathsEmpty(call.updated)

\* C15 amended: on such a record the mapper side contributes no candidate:
\* every candidate fetch_one has comes from the enrichment lookup, and when
\* no lookup is sent (no email configured or no DOI in the metadata) there
\* is no candidate, no request, no store write, and the record is returned as
\* it was handed in.
C15_DetectionMissUnlessEnriched ==
    call.state # "none" /\ Unmatched(CallMeta) =>
       /\ \A n \in 1..Len(call.locs) : call.locs[n].source = UPW
       /\ call.lookups = <<>> =>
             /\ call.locs = <<>>
             /\ reqlog = <<>>
             /\ call.last = NoAttempt
             /\ Returned =>
                   /\ call.upserts = 0
                   /\ call.updated = call.item
                   /\ PathsEmpty(StoredRow(store, call.item.id))

\* C15 witness: fetch_one has returned for a record whose metadata matches
\* no mapper although it carries a best_oa_location with a url; no email was
\* configured.
C15_Witness ==
    /\ Returned
    /\ Unmatched(CallMeta)
    /\ CallMeta.best_oa_location # <<>>
    /\ run.email = None
    /\ call.locs = <<>> /\ call.upserts = 0

SlotHasUrl(d) ==
    \E f \in {"url_for_pdf", "pdf_url", "url", "landing_page_url"} : d[f] \notin {None, ""}

FromSlot(l, d) == l.pdf_url = OaPick(d).pdf /\ l.html_url = OaPick(d).html

\* C16: on metadata the OpenAlex mapper handles, the candidates come in
\* strictly increasing priority; the entry of priority 0 is the best
\* open-access copy, that of priority 5 the primary copy, and the entry made
\* from the listed copy at index i has priority 10 + i, so the listed copies
\* follow both in encounter order; every copy that has a url is there.
C16_OpenAlexBands ==
    reg.state \in {"mapped", "resolved"} /\ detect_source_from_meta(reg.meta) = OA =>
       LET out == reg.primary
           m == reg.meta
       IN /\ \A n \in 1..(Len(out) - 1) : out[n].priority < out[n + 1].priority
          /\ \A n \in 1..Len(out) :
                /\ out[n].source = OA
                /\ out[n].priority = 0 =>
                      m.best_oa_location # <<>> /\ FromSlot(out[n], m.best_oa_location[1])
                /\ out[n].priority = 5 =>
                      m.primary_location # <<>> /\ FromSlot(out[n], m.primary_location[1])
                /\ out[n].priority \notin {0, 5} =>
                      \E i \in 1..Len(m.locations) :
                         out[n].priority = 10 + (i - 1) /\ FromSlot(out[n], m.locations[i])
          /\ m.best_oa_location # <<>> /\ SlotHasUrl(m.best_oa_location[1]) =>
                out # <<>> /\ out[1].priority = 0
          /\ m.primary_location # <<>> /\ SlotHasUrl(m.primary_location[1]) =>
                \E n \in 1..Len(out) : out[n].priority = 5
          /\ \A i \in 1..Len(m.locations) :
                SlotHasUrl(m.locations[i]) =>
                   \E n \in 1..Len(out) : out[n].priority = 10 + (i - 1)

\* C16 witness: a blob with a best copy, a primary copy and two listed
\* copies, all with a url, has been mapped.
C16_Witness ==
    /\ reg.state = "mapped"
    /\ Len(reg.primary) = 4
    /\ reg.primary[1].priority = 0 /\ reg.primary[2].priority = 5
    /\ reg.primary[3].priority = 10 /\ reg.primary[4].priority = 11
    /\ reg.primary[3] # [reg.primary[4] EXCEPT !.priority = 10]

\* C17: when no email is configured (None or empty), or the metadata has no
\* DOI (absent, null or empty), no enrichment lookup is sent and the
\* candidate list is the list of the primary mapper, entry for entry.
C17_EnrichmentSkipped ==
    /\ reg.state = "resolved" /\ (reg.email \in {None, ""} \/ reg.meta.doi \in {None, ""}) =>
          /\ reg.lookups = <<>>
          /\ reg.resp = "none"
          /\ reg.out = reg.primary
    /\ call.state # "none" /\ (run.email \in {None, ""} \/ CallMeta.doi \in {None, ""}) =>
          /\ call.lookups = <<>>
          /\ call.locs = locations_from_meta(CallMeta)

\* C17 witness: a blob with a DOI and three candidates was resolved without
\* a configured email.
C17_Witness ==
    /\ reg.state = "resolved"
    /\ reg.email = None
    /\ reg.meta.doi = "10.1/b"
    /\ Len(reg.primary) = 3
    /\ reg.out = reg.primary

\* Where the best entry of the enricher, the best entry of the primary
\* mapper and the primary entry of the primary mapper stand in a list.
UpwBestAt(locs) == {n \in 1..Len(locs) : locs[n].source = UPW /\ locs[n].priority < 10}

OaBestAt(locs) == {n \in 1..Len(locs) : locs[n].source = OA /\ locs[n].priority = 0}

OaPrimaryAt(locs) == {n \in 1..Len(locs) : locs[n].source = OA /\ locs[n].priority = 5}

\* C18 as claimed: in the combined, renormalized list the best entry of the
\* enricher comes before the best entry of the primary mapper when
\* prefer_best is enabled and after it when prefer_best is disabled.
C18_PreferBestOutranks ==
    reg.state = "resolved" =>
       \A u \in UpwBestAt(reg.out), o \in OaBestAt(reg.out) :
          IF reg.prefer_best THEN u < o ELSE u > o

\* C18 amended: the best entry of the enricher has priority 0 when
\* prefer_best is enabled and 5 when it is disabled; in the combined,
\* renormalized list it comes after the best entry of the primary mapper in
\* both cases, and the toggle decides its place relative to the primary
\* entry of the primary mapper: before it when enabled, after it when
\* disabled.
C18_PreferBestBand ==
    reg.state = "resolved" =>
       \A u \in UpwBestAt(reg.out) :
          /\ reg.out[u].priority = (IF reg.prefer_best THEN 0 ELSE 5)
          /\ \A o \in OaBestAt(reg.out) : o < u
          /\ \A p \in OaPrimaryAt(reg.out) : IF reg.prefer_best THEN u < p ELSE p < u

\* C18 witness: with prefer_best enabled the combined list has the best
\* entry of the primary mapper, then the best entry of the enricher, then
\* the primary entry of the primary mapper.
C18_Witness ==
    /\ reg.state = "resolved"
    /\ reg.prefer_best
    /\ Len(reg.out) >= 3
    /\ 1 \in OaBestAt(reg.out)
    /\ 2 \in UpwBestAt(reg.out)
    /\ 3 \in OaPrimaryAt(reg.out)

\* C19: when fetch_one returns, at most one of the two artifact paths of the
\* record holds a file.
C19_AtMostOneArtifact ==
    Returned =>
       ~(/\ files[PdfPathOf(call.item)] # Absent
         /\ files[HtmlPathOf(call.item)] # Absent)

\* C20: when fetch_one returns, a file at one of the artifact paths of the
\* record is the accepted artifact the returned record refers to: a complete
\* body, at the returned pdf_path or html_path.
C20_NoRejectedFileSurvives ==
    Returned =>
       \A path \in {PdfPathOf(call.item), HtmlPathOf(call.item)} :
          files[path] # Absent =>
             /\ files[path] \in {"pdf", "other"}
             /\ path \in {call.updated.pdf_path, call.updated.html_path}

\* C21: a fetch run ends only with its summary, after every eligible record
\* within its limit has been handed to fetch_one, whatever happened to the
\* records before: no failure of one record ends the run.
C21_RunSurvivesRecordError ==
    [][FetchRunning /\ pc' = "idle" =>
          /\ pc = "fetch_loop"
          /\ run.pos > Len(run.snapshot) \/ run.done >= run.limit
          /\ run'.aborted = ""]_vars

\* What the claims about the search string say of a keyword: whether it is
\* blank, its text without the blanks around it, whether that text contains
\* a blank.
NonBlank(k) == \E i \in 1..Len(k) : k[i] # Blank

Trimmed(k) ==
    LET at == {i \in 1..Len(k) : k[i] # Blank}
    IN IF at = {} THEN <<>>
       ELSE SubSeq(k, CHOOSE i \in at : \A j \in at : i <= j,
                      CHOOSE i \in at : \A j \in at : i >= j)

IsPhrase(k) == \E i \in 1..Len(Trimmed(k)) : Trimmed(k)[i] = Blank

\* text contains part as a contiguous stretch.
Contains(text, part) ==
    \E i \in 0..(Len(text) - Len(part)) : SubSeq(text, i + 1, i + Len(part)) = part

\* The stretches of text between the occurrences of sep.
RECURSIVE SplitAt(_, _)
SplitAt(text, sep) ==
    IF \A i \in 1..Len(text) : text[i] # sep THEN <<text>>
    ELSE LET i == CHOOSE i \in 1..Len(text) :
                     text[i] = sep /\ \A j \in 1..(i - 1) : text[j] # sep
         IN <<SubSeq(text, 1, i - 1)>> \o SplitAt(SubSeq(text, i + 1, Len(text)), sep)

RequestSent == pc = "crawl" /\ crawl.nreq > 0

SearchTerms == SplitAt(crawl.search[1], " OR ")

NonBlankKeywords == SelectSeq(crawl.keywords, NonBlank)

\* C22 as claimed: the search string is its terms joined with " OR ", one
\* per non-blank keyword; the term of a keyword that contains whitespace is
\* the keyword in double quotes and the term of a single token is the bare
\* token.
C22_PhrasesQuotedTokensBare ==
    RequestSent /\ crawl.search # <<>> =>
       /\ Len(SearchTerms) = Len(NonBlankKeywords)
       /\ \A n \in 1..Len(NonBlankKeywords) :
             LET k == Trimmed(NonBlankKeywords[n])
             IN IF IsPhrase(k)
                THEN Contains(SearchTerms[n], <<Quote>> \o k \o <<Quote>>)
                ELSE SearchTerms[n] = k

\* C22 amended: every non-blank keyword, phrase or single token, is emitted
\* without the blanks around it as a double-quoted string in parentheses,
\* ("k"), and the terms are joined with " OR ".
C22_EveryKeywordQuoted ==
    RequestSent /\ crawl.search # <<>> =>
       /\ Len(SearchTerms) = Len(NonBlankKeywords)
       /\ \A n \in 1..Len(NonBlankKeywords) :
             SearchTerms[n] = <<"(", Quote>> \o Trimmed(NonBlankKeywords[n]) \o <<Quote, ")">>

\* C22 witness: a request went out for a padded single token, a blank
\* keyword and a phrase.
C22_Witness ==
    /\ RequestSent
    /\ crawl.keywords = <<(<<Blank, "erosion", Blank>>), (<<Blank>>),
                         (<<"soil", Blank, "carbon">>)>>
    /\ crawl.search # <<>>

Words(text) == SelectSeq(text, LAMBDA a : a \notin {Blank, Quote, "(", ")"})

\* C23: the request carries no search parameter when the keyword list is
\* empty or all its keywords are blank; otherwise the search string has one
\* term per non-blank keyword, in input order, made of the words of that
\* keyword.
C23_BlankKeywordsDropped ==
    RequestSent =>
       IF NonBlankKeywords = <<>>
       THEN crawl.search = <<>>
       ELSE /\ crawl.search # <<>>
            /\ Len(SearchTerms) = Len(NonBlankKeywords)
            /\ \A n \in 1..Len(NonBlankKeywords) :
                  Words(SearchTerms[n]) = Words(NonBlankKeywords[n])

\* C23 witness: a request went out without a search parameter for a list of
\* an empty and a whitespace-only keyword.
C23_Witness ==
    /\ RequestSent
    /\ crawl.keywords = <<(<<>>), (<<Blank>>)>>
    /\ crawl.search = <<>>

SoilCarbonErosion == <<(<<"soil", Blank, "carbon">>), (<<"erosion">>)>>

\* C24 as claimed: for keywords ["soil carbon", "erosion"] the search
\* string sent contains the text "soil carbon" OR "erosion".
C24_ScenarioQuotedTerms ==
    RequestSent /\ crawl.keywords = SoilCarbonErosion =>
       /\ crawl.search # <<>>
       /\ Contains(crawl.search[1],
                   <<Quote, "soil", Blank, "carbon", Quote, " OR ", Quote, "erosion", Quote>>)

\* C24 amended: for keywords ["soil carbon", "erosion"] the search string
\* sent is ("soil carbon") OR ("erosion").
C24_ScenarioParenthesisedTerms ==
    RequestSent /\ crawl.keywords = SoilCarbonErosion =>
       crawl.search = <<(<<"(", Quote, "soil", Blank, "carbon", Quote, ")", " OR ",
                          "(", Quote, "erosion", Quote, ")">>)>>

\* C24 witness: a request went out for keywords ["soil carbon", "erosion"]
\* with the open-access filter and min_year 2020.
C24_Witness ==
    /\ RequestSent
    /\ crawl.keywords = SoilCarbonErosion
    /\ crawl.filter_oa /\ crawl.min_year = <<2020>>

\* The filter clause for an open-access condition wanted or not and a date
\* condition wanted or not: <<>> when the parameter is to be left out.
FilterFor(oa, dated, year) ==
    CASE oa /\ dated ->
           <<(<<"open_access.is_oa:true", ",", "from_publication_date:", year, "-01-01">>)>>
      [] oa /\ ~dated -> <<(<<"open_access.is_oa:true">>)>>
      [] ~oa /\ dated -> <<(<<"from_publication_date:", year, "-01-01">>)>>
      [] OTHER -> <<>>

YearText == IF crawl.min_year = <<>> THEN "" ELSE ToString(crawl.min_year[1])

\* C25 as claimed: the filter parameter has the open-access condition iff
\* filter_oa is set and the date condition iff a min_year is given, the
\* open-access condition first, joined with a comma; it is left out iff
\* neither applies.
C25_FilterClauseIffGiven ==
    RequestSent =>
       crawl.filter = FilterFor(crawl.filter_oa, crawl.min_year # <<>>, YearText)

\* C25 amended: as claimed, with the date condition present iff a min_year
\* other than 0 is given.
C25_FilterClauseIffNonZero ==
    RequestSent =>
       crawl.filter = FilterFor(crawl.filter_oa,
                                crawl.min_year # <<>> /\ crawl.min_year # <<0>>, YearText)

\* C25 witness: a request went out with filter_oa set and min_year 2020,
\* and its filter is open_access.is_oa:true,from_publication_date:2020-01-01.
C25_Witness ==
    /\ RequestSent
    /\ crawl.filter_oa /\ crawl.min_year = <<2020>>
    /\ crawl.filter = <<(<<"open_access.is_oa:true", ",", "from_publication_date:",
                          "2020", "-01-01">>)>>

\* C26: whatever integer per_page a crawl is given, the page size of its
\* requests is 1 below 1, 200 above 200 and per_page in between, so it lies
\* in 1..200; it is the same on every request of the crawl.
C26_PerPageClamped ==
    [][/\ pc' = "crawl" =>
             /\ crawl'.per_page \in 1..200
             /\ crawl'.per_page = (IF crawl'.per_page_arg < 1 THEN 1
                                   ELSE IF crawl'.per_page_arg > 200 THEN 200
                                   ELSE crawl'.per_page_arg)
       /\ pc = "crawl" /\ pc' = "crawl" =>
             /\ crawl'.per_page = crawl.per_page
             /\ crawl'.per_page_arg = crawl.per_page_arg]_vars

\* C26 witness: the second request of a crawl that was given per_page 0 has
\* gone out.
C26_Witness ==
    /\ pc = "crawl"
    /\ crawl.nreq = 2
    /\ crawl.per_page_arg = 0
    /\ crawl.per_page = 1

AttemptedOncePerPass ==
    /\ \A m, n \in DOMAIN reqlog :
          m # n => <<reqlog[m].pass, reqlog[m].cand>> # <<reqlog[n].pass, reqlog[n].cand>>
    /\ call.state # "none" => call.i \in 1..(Len(call.locs) + 1)

\* No request of the last attempt went out more than 1 + Retries times.
SendsBounded ==
    /\ call.last.head_sends <= 1 + Retries
    /\ call.last.get_sends <= 1 + Retries

\* The call never ends in an exception, and one that obtained nothing has
\* returned the record as it was given, with nothing written to the store.
ExhaustedReturnsNormally ==
    /\ call.state # "raised"
    /\ run.aborted = ""
    /\ call.state = "returned" /\ ~call.got_pdf /\ ~call.got_html
       => /\ call.updated = call.item
          /\ call.upserts = 0

\* C28: under every behaviour of the network fetch_one ends: each candidate
\* is attempted at most once per pass, each request is sent at most
\* 1 + Retries times, a call that has started returns, and a call whose
\* candidates all failed returns the record unchanged instead of raising.
C28_FetchOneTerminates ==
    /\ [](AttemptedOncePerPass /\ SendsBounded /\ ExhaustedReturnsNormally)
    /\ (call.state = "active") ~> (call.state = "returned")

\* C28 witness: a call over two candidates has returned empty-handed after
\* attempts in both passes, the last of which spent the whole retry budget.
C28_Witness ==
    /\ call.state = "returned"
    /\ ~call.got_pdf /\ ~call.got_html
    /\ Len(call.locs) >= 2
    /\ Len(reqlog) >= 3
    /\ \E n \in DOMAIN reqlog : reqlog[n].pass = "pdf"
    /\ call.last.pass = "html"
    /\ call.last.get_sends = 1 + Retries

\* A page request goes out only from a crawl whose yielded count is below
\* max_results and whose cursor is neither None nor empty.
RequestOnlyWhileBelowCapWithCursor ==
    pc = "crawl" /\ pc' = "crawl" /\ crawl'.nreq = crawl.nreq + 1 =>
       /\ Len(crawl.yielded) < crawl.max_results
       /\ crawl.cursor \notin {None, ""}

\* A crawl sends at most max_results requests (none for max_results <= 0);
\* one that was served a non-empty page with a next cursor on every request
\* and cannot go on has yielded exactly max_results records.
CrawlBounded ==
    pc = "crawl" =>
       /\ crawl.nreq <= Max2(0, crawl.max_results)
       /\ (/\ crawl.nreq > 0 /\ ~crawl.broke
           /\ crawl.cursor \notin {None, ""}
           /\ ~(Len(crawl.yielded) < crawl.max_results))
          => Len(crawl.yielded) = crawl.max_results

\* C29: discover_openalex ends under every behaviour of the API: a crawl
\* that has started comes to its end, it requests a page only while the
\* yielded count is below max_results and the cursor is non-empty (never
\* for max_results <= 0), and against an API that always serves a non-empty
\* page with a next cursor it ends with exactly max_results records.
C29_CrawlTerminates ==
    /\ [][RequestOnlyWhileBelowCapWithCursor]_vars
    /\ []CrawlBounded
    /\ (pc = "crawl") ~> (pc = "idle")

\* C29 witness: two requests were each served a full page with a next
\* cursor, the second page was cut at the cap, and the loop cannot go on.
C29_Witness ==
    /\ pc = "crawl"
    /\ crawl.max_results = MaxCap
    /\ crawl.nreq = 2
    /\ ~crawl.broke
    /\ crawl.cursor = "c1"
    /\ Len(crawl.last.results) = MaxPageLen
    /\ Len(crawl.received) > Len(crawl.yielded)
    /\ Len(crawl.yielded) = crawl.max_results

\* C30: in the enriched candidate list an entry of the primary mapper comes
\* before every entry of the enricher that has the same priority; the best
\* entry of the enricher has priority 0 with prefer_best enabled and then
\* follows the best entry of the primary mapper, and priority 5 with
\* prefer_best disabled and then follows the mapper's primary entry.
C30_PrimaryFirstOnTies ==
    reg.state = "resolved" =>
       /\ \A m, n \in 1..Len(reg.out) :
             /\ reg.out[m].source = OA /\ reg.out[n].source = UPW
             /\ reg.out[m].priority = reg.out[n].priority
             => m < n
       /\ \A u \in UpwBestAt(reg.out) :
             IF reg.prefer_best
             THEN /\ reg.out[u].priority = 0
                  /\ \A o \in OaBestAt(reg.out) : o < u
             ELSE /\ reg.out[u].priority = 5
                  /\ \A p \in OaPrimaryAt(reg.out) : p < u

\* C30 witness: with prefer_best disabled the enriched list has the primary
\* entry of the mapper and right after it the best entry of the enricher,
\* both at priority 5, and further on a listed entry of each source at one
\* priority, the mapper's first.
C30_Witness ==
    /\ reg.state = "resolved"
    /\ ~reg.prefer_best
    /\ \E p \in OaPrimaryAt(reg.out) :
          /\ p + 1 \in UpwBestAt(reg.out)
          /\ reg.out[p + 1].priority = 5
    /\ \E m, n \in 1..Len(reg.out) :
          /\ m < n
          /\ reg.out[m].source = OA /\ reg.out[n].source = UPW
          /\ reg.out[m].priority = reg.out[n].priority
          /\ reg.out[m].priority >= 10

\* A step of the PDF loop: the attempt of the candidate the loop stood on.
PdfAttemptStep == pc = "pdf_pass" /\ call'.last.pass = "pdf" /\ call'.last.cand = call.i

\* C31: a PDF attempt whose probe met a Content-Type that names a type and
\* not PDF sends no GET for the pdf_url, leaves every file and the store as
\* they were, and leaves the PDF loop on the next candidate.
C31_NonPdfTypeSkipsDownload ==
    [][PdfAttemptStep /\ call'.last.head \in {"text/html", "application/octet-stream"} =>
          /\ call'.last.get = NotSent
          /\ call'.last.get_sends = 0
          /\ files' = files
          /\ store' = store
          /\ pc' = "pdf_pass"
          /\ call'.i = call.i + 1
          /\ ~call'.got_pdf]_vars

\* C31 witness: the probe of the first of two candidates met text/html, no
\* download was sent, nothing is at the PDF path and the loop stands on
\* the second candidate.
C31_Witness ==
    /\ pc = "pdf_pass"
    /\ Len(call.locs) >= 2
    /\ call.i = 2
    /\ call.last.pass = "pdf" /\ call.last.cand = 1
    /\ call.last.head = "text/html"
    /\ call.last.head_sends = 1
    /\ call.last.get = NotSent
    /\ files[PdfPathOf(call.item)] = Absent

\* The row of the run's iteration that was handed to the current or last
\* fetch_one.
CallerRows == {n \in 1..Len(run.snapshot) : run.snapshot[n].id = call.item.id}

\* C32: the record handed to fetch_one keeps the field values the caller
\* read from the store, during the call and after its return; the returned
\* copy differs from it by the new path alone on a pdf or html outcome and
\* not at all on none, and the stored row is the returned copy when
\* something was obtained and the record as handed in otherwise.
C32_InputRecordUnchanged ==
    call.state \in {"active", "returned"} =>
       /\ \E n \in CallerRows : call.item = run.snapshot[n]
       /\ ~HasPath(call.item)
       /\ call.state = "returned" =>
             /\ call.updated =
                   (IF call.got_pdf
                    THEN [call.item EXCEPT !.pdf_path = PdfPathOf(call.item)]
                    ELSE IF call.got_html
                    THEN [call.item EXCEPT !.html_path = HtmlPathOf(call.item)]
                    ELSE call.item)
             /\ \E k \in 1..Len(store) : store[k] = call.updated

\* C32 witness: a call has returned with an HTML artifact; the record it
\* was given has no path, the returned copy and the stored row have one.
C32_Witness ==
    /\ call.state = "returned"
    /\ call.got_html
    /\ call.item.html_path = ""
    /\ call.updated.html_path = HtmlPathOf(call.item)
    /\ \E k \in 1..Len(store) :
          store[k].id = call.item.id /\ store[k].html_path = HtmlPathOf(call.item)

\* The rows of the run's iteration the loop has gone past.
RowsPassed ==
    1..(IF call.state = "active" THEN run.pos ELSE run.pos - 1)

\* C33: in a fetch run fetch_one is invoked at most limit times and at most
\* once for an id, whatever the calls of the run have written to the
\* store; the rows gone past that had a path were skipped and are not in
\* the count, the others were each handed to fetch_one; the count of
\* attempts is the number of calls that returned, and pdf + html + none
\* equals it, at the end of the run in particular.
C33_RunBoundedOncePerId ==
    pc \in {"fetch_loop", "pdf_pass", "html_pass"} =>
       /\ Len(run.invoked) <= run.limit
       /\ \A m, n \in 1..Len(run.invoked) : m # n => run.invoked[m] # run.invoked[n]
       /\ LET handed == SelectSeq([n \in RowsPassed |-> run.snapshot[n]],
                                   LAMBDA r : ~HasPath(r))
          IN run.invoked = [n \in 1..Len(handed) |-> handed[n].id]
       /\ run.done = Len(run.invoked) - (IF call.state = "active" THEN 1 ELSE 0)
       /\ run.pdfs + run.htmls + run.none = run.done

\* C33 witness: a run with limit 1 is at its end; it skipped the first row,
\* which had a path, and handed the second to fetch_one, which stored it
\* with a new path while the run held its iteration of the store.
C33_Witness ==
    /\ pc = "fetch_loop"
    /\ ~InLoop
    /\ run.limit = 1
    /\ run.pos = 3
    /\ HasPath(run.snapshot[1])
    /\ run.invoked = <<run.snapshot[2].id>>
    /\ run.done = 1
    /\ run.pdfs + run.htmls = 1
    /\ iter_items(store) # run.snapshot

====
